---- MODULE Spec2Model ----
(***************************************************************************)
(* A model of src/morse.py: the brute-force Morse decoder with unknown     *)
(* spacing (trie walk, memoization, beam pruning), its polarity wrapper    *)
(* and the deduplicating aggregation done by main.                         *)
(*                                                                         *)
(* Representation.                                                         *)
(*   - A Python str is a sequence of one-character strings: "HI" is        *)
(*     <<"H","I">>, the symbol string "..-" is <<".",".","-">>.            *)
(*   - A Python float score is an integer number of hundredths: 0.75 is    *)
(*     75, the dictionary bonus 5.0 is 500.  Every constant of the source  *)
(*     is a multiple of 0.05, so the scaled arithmetic is exact; rounding  *)
(*     of IEEE doubles is not modelled.                                    *)
(*   - A search state (pos, cur_word, sentence, score) is a record.        *)
(*   - A trie node is a function whose domain is a subset of               *)
(*     {".", "-", "$"}: the nested dict build_morse_trie creates.          *)
(***************************************************************************)
EXTENDS Integers, Sequences, FiniteSets, TLC

(***************************************************************************)
(* Bounds of the model.                                                    *)
(***************************************************************************)
\* longest bitstream drawn by the general specifications
MaxBits == 4
\* largest small beam width drawn (the default 12000 is drawn as well)
MaxBeam == 2
\* largest small MAX_WORD_LEN and MAX_RESULTS drawn (beside the defaults)
MaxCap == 2
\* longest bitstream drawn with characters other than 0 and 1
MaxMalformed == 3
\* longest result list handed to the aggregation
MaxAgg == 2
\* longest bitstream drawn when the history of a call is recorded
MaxHist == 4
\* longest bitstream drawn under fairness
MaxLive == 3

(***************************************************************************)
(* The program state.                                                      *)
(*   BITSTREAM, dictionary, BEAM_WIDTH, MAX_WORD_LEN, MAX_RESULTS          *)
(*       the inputs and the configuration, fixed for a run of main;        *)
(*   phase   where main is: "normal", "inverted" (before the call of that  *)
(*           polarity, or inside it), "aggregate", "done", "error" (an     *)
(*           exception left main); before main, "build" (inside            *)
(*           build_morse_trie) and "built" (it returned);                  *)
(*   pc      "call" (in main) or "loop" (inside brute_force_decode);       *)
(*   invert, bits, states, k, next_states, visited, results                *)
(*           the argument and the locals of the current (or last) call,    *)
(*           k the 1-based index of the for loop in states;                *)
(*   truncated, gens   history of the current call: whether the beam cut   *)
(*           some generation, and the generations completed;               *)
(*   processed   history of the current call, recorded by SpecHistory      *)
(*           only: the states the for loop has taken from the active       *)
(*           sets, in order, each with whether the step that took it       *)
(*           left the memo table, the successors and the results as they   *)
(*           were;                                                         *)
(*   ret     the list the last call returned;                              *)
(*   all_results, best, ranked   the locals of main;                       *)
(*   trie, item, path   build_morse_trie, run when the module is loaded:   *)
(*           the dict it builds, the 1-based index of its for loop in the  *)
(*           items of morse_map, and its local `node` as the path from     *)
(*           the root of trie to that node.                                *)
(***************************************************************************)
VARIABLES BITSTREAM, dictionary, BEAM_WIDTH, MAX_WORD_LEN, MAX_RESULTS,
          phase, pc, invert, bits, states, k, next_states, visited, results,
          truncated, gens, processed, ret, all_results, best, ranked,
          trie, item, path

vars == << BITSTREAM, dictionary, BEAM_WIDTH, MAX_WORD_LEN, MAX_RESULTS,
           phase, pc, invert, bits, states, k, next_states, visited, results,
           truncated, gens, processed, ret, all_results, best, ranked,
           trie, item, path >>

config == << BITSTREAM, dictionary, BEAM_WIDTH, MAX_WORD_LEN, MAX_RESULTS >>
locals == << invert, bits, states, k, next_states, visited, results,
             truncated, gens, processed >>
mainLocals == << all_results, best, ranked >>
builder == << trie, item, path >>

(***************************************************************************)
(* Configuration constants of the source (their default values).           *)
(***************************************************************************)
DEFAULT_BEAM_WIDTH == 12000
DEFAULT_MAX_WORD_LEN == 15
DEFAULT_MAX_RESULTS == 20
ENABLE_REVERSE_POLARITY == TRUE

(***************************************************************************)
(* Morse alphabet: the MORSE dict as its (code, letter) items, in the      *)
(* dict's insertion order.                                                 *)
(***************************************************************************)
MORSE ==
  << << <<".","-">>, "A" >>,          << <<"-",".",".",".">>, "B" >>,
     << <<"-",".","-",".">>, "C" >>,  << <<"-",".",".">>, "D" >>,
     << <<".">>, "E" >>,              << <<".",".","-",".">>, "F" >>,
     << <<"-","-",".">>, "G" >>,      << <<".",".",".",".">>, "H" >>,
     << <<".",".">>, "I" >>,          << <<".","-","-","-">>, "J" >>,
     << <<"-",".","-">>, "K" >>,      << <<".","-",".",".">>, "L" >>,
     << <<"-","-">>, "M" >>,          << <<"-",".">>, "N" >>,
     << <<"-","-","-">>, "O" >>,      << <<".","-","-",".">>, "P" >>,
     << <<"-","-",".","-">>, "Q" >>,  << <<".","-",".">>, "R" >>,
     << <<".",".",".">>, "S" >>,      << <<"-">>, "T" >>,
     << <<".",".","-">>, "U" >>,      << <<".",".",".","-">>, "V" >>,
     << <<".","-","-">>, "W" >>,      << <<"-",".",".","-">>, "X" >>,
     << <<"-",".","-","-">>, "Y" >>,  << <<"-","-",".",".">>, "Z" >> >>

\* the empty dict {}
EmptyDict == [x \in {} |-> x]

\* d with d[key] = value, the other keys kept
DictSet(d, key, value) ==
  [x \in (DOMAIN d) \cup {key} |-> IF x = key THEN value ELSE d[x]]

(***************************************************************************)
(* build_morse_trie.  TrieInsert is the inner loop for one (code, letter): *)
(* node.setdefault(s, {}) along the code, then node["$"] = letter.         *)
(***************************************************************************)
RECURSIVE TrieInsert(_, _, _)
TrieInsert(node, code, letter) ==
  IF code = << >>
    THEN DictSet(node, "$", letter)
    ELSE LET s == Head(code)
             child == IF s \in DOMAIN node THEN node[s] ELSE EmptyDict
         IN  DictSet(node, s, TrieInsert(child, Tail(code), letter))

RECURSIVE TrieBuildFrom(_, _, _)
TrieBuildFrom(t, morse_map, j) ==
  IF j > Len(morse_map)
    THEN t
    ELSE TrieBuildFrom(TrieInsert(t, morse_map[j][1], morse_map[j][2]),
                       morse_map, j + 1)

build_morse_trie(morse_map) == TrieBuildFrom(EmptyDict, morse_map, 1)

MORSE_TRIE == build_morse_trie(MORSE)

(***************************************************************************)
(* build_morse_trie step by step.  The local `node` refers to a dict       *)
(* inside trie; it is held as the path of keys from the root to it.        *)
(***************************************************************************)
\* the node of t at the end of path p
RECURSIVE NodeAt(_, _)
NodeAt(t, p) == IF p = << >> THEN t ELSE NodeAt(t[Head(p)], Tail(p))

\* t with the node at the end of path p replaced by nd
RECURSIVE WithNodeAt(_, _, _)
WithNodeAt(t, p, nd) ==
  IF p = << >> THEN nd
  ELSE DictSet(t, Head(p), WithNodeAt(t[Head(p)], Tail(p), nd))

\* faulty variant: node[s] = {} whether or not the key is there
SetDefaultOverwrites(nd, s) == DictSet(nd, s, EmptyDict)

\* the effect of node.setdefault(s, {}) on node
SetDefault(nd, s) == IF s \in DOMAIN nd THEN nd ELSE DictSet(nd, s, EmptyDict)

\* one iteration of `for s in code`: node = node.setdefault(s, {})
Descend ==
  /\ phase = "build"
  /\ item <= Len(MORSE)
  /\ Len(path) < Len(MORSE[item][1])
  /\ LET s == MORSE[item][1][Len(path) + 1]
     IN  /\ trie' = WithNodeAt(trie, path, SetDefault(NodeAt(trie, path), s))
         /\ path' = Append(path, s)
  /\ UNCHANGED << config, phase, pc, locals, ret, mainLocals, item >>

\* the code is consumed: node["$"] = letter, and the for loop over the
\* items goes on (node = trie) or build_morse_trie returns
SetTerminal ==
  /\ phase = "build"
  /\ item <= Len(MORSE)
  /\ Len(path) = Len(MORSE[item][1])
  /\ trie' = WithNodeAt(trie, path,
                        DictSet(NodeAt(trie, path), "$", MORSE[item][2]))
  /\ path' = << >>
  /\ item' = item + 1
  /\ phase' = IF item = Len(MORSE) THEN "built" ELSE phase
  /\ UNCHANGED << config, pc, locals, ret, mainLocals >>

\* the module is loaded: MORSE_TRIE is what build_morse_trie returned
Imported ==
  /\ trie = MORSE_TRIE
  /\ item = Len(MORSE) + 1
  /\ path = << >>

(***************************************************************************)
(* Language scoring, in hundredths.                                        *)
(***************************************************************************)
DEFAULT_LETTER_SCORE == 25
DICT_BONUS == 500
LONG_WORD_LEN == 12
LONG_WORD_PENALTY == 200
BOUNDARY_PENALTY == 20

LETTER_FREQ ==
  [c \in {"E","T","A","O","N","R","I","S","H","L","D"} |->
     CASE c = "E" -> 100
       [] c = "T" -> 90
       [] c \in {"A","O"} -> 85
       [] c \in {"N","R"} -> 80
       [] c \in {"I","S"} -> 75
       [] c \in {"H","L"} -> 70
       [] c = "D" -> 65]

score_letter(c) ==
  IF c \in DOMAIN LETTER_FREQ THEN LETTER_FREQ[c] ELSE DEFAULT_LETTER_SCORE

RECURSIVE SumLetters(_)
SumLetters(word) ==
  IF word = << >> THEN 0 ELSE score_letter(Head(word)) + SumLetters(Tail(word))

\* faulty variant: no dictionary bonus
score_word_no_bonus(word, dict) ==
  SumLetters(word)
    - (IF Len(word) > LONG_WORD_LEN THEN LONG_WORD_PENALTY ELSE 0)

score_word(word, dict) ==
  SumLetters(word)
    + (IF word \in dict THEN DICT_BONUS ELSE 0)
    - (IF Len(word) > LONG_WORD_LEN THEN LONG_WORD_PENALTY ELSE 0)

(***************************************************************************)
(* Generic list helpers.                                                   *)
(***************************************************************************)
Min(a, b) == IF a <= b THEN a ELSE b

\* faulty variant: a slice that keeps the first element whatever the count
TakeAtLeastOne(seq, count) ==
  SubSeq(seq, 1, Min(IF count < 1 THEN 1 ELSE count, Len(seq)))

\* seq[:count] for count >= 0
Take(seq, count) == SubSeq(seq, 1, Min(count, Len(seq)))

\* list.sort(key=lambda x: -x.score) and sorted(list, key=...): Python's
\* sort is stable, so the element at index i comes after every element
\* with a higher score and after the earlier elements with the same score.
SortDesc(seq) ==
  LET n == Len(seq)
      place == [i \in 1..n |->
                  Cardinality({ j \in 1..n :
                     \/ seq[j].score > seq[i].score
                     \/ (seq[j].score = seq[i].score /\ j < i) }) + 1]
  IN  [p \in 1..n |-> seq[CHOOSE i \in 1..n : place[i] = p]]

\* " ".join(sentence)
RECURSIVE Join(_)
Join(sentence) ==
  IF sentence = << >> THEN << >>
  ELSE IF Len(sentence) = 1 THEN sentence[1]
  ELSE sentence[1] \o << " " >> \o Join(Tail(sentence))

(***************************************************************************)
(* brute_force_decode.                                                     *)
(***************************************************************************)
State(pos, cur_word, sentence, score) ==
  [pos |-> pos, cur_word |-> cur_word, sentence |-> sentence, score |-> score]

\* faulty variant: the search starts after the first symbol
InitialStatesSkipOne == << State(1, << >>, << >>, 0) >>

\* states = [(0, "", (), 0.0)]
InitialStates == << State(0, << >>, << >>, 0) >>

\* faulty variant: the memo table of the previous call is reused
LeakedVisited == visited

\* visited = {}
NewVisited == EmptyDict

\* faulty variant: the memo keyed on the committed sentence as well
MemoKeyWithSentence(st) == << st.pos, st.cur_word, st.sentence >>

\* faulty variant: the memo keyed on the position alone
MemoKeyPosOnly(st) == << st.pos >>

\* key = (pos, cur_word)
MemoKey(st) == << st.pos, st.cur_word >>

\* faulty variant: a state with the score of the memo entry is not discarded
DominatedStrict(vis, key, score) == key \in DOMAIN vis /\ vis[key] > score

\* faulty variant: the comparison is reversed, the worse state wins
DominatedReversed(vis, key, score) == key \in DOMAIN vis /\ vis[key] <= score

\* key in visited and visited[key] >= score
Dominated(vis, key, score) == key \in DOMAIN vis /\ vis[key] >= score

\* faulty variant: the dictionary test is missing at the end of the bitstream
FinalizesUngated(cur_word, dict) == cur_word # << >>

\* faulty variant: an empty partial word finalizes too
FinalizesEmptyToo(cur_word, dict) == cur_word = << >> \/ cur_word \in dict

\* pos == n: cur_word and cur_word in dictionary
Finalizes(cur_word, dict) == cur_word # << >> /\ cur_word \in dict

\* faulty variant: the dictionary test is missing at the word boundary
WordBoundaryUngated(cur_word, dict) == cur_word # << >>

\* the guard of the word-boundary successor
WordBoundary(cur_word, dict) == cur_word # << >> /\ cur_word \in dict

(***************************************************************************)
(* Faulty variant of the trie walk below: it stops at the first letter it  *)
(* emits (the shortest code), where the walk of the source goes on to the  *)
(* longer codes.                                                           *)
(***************************************************************************)
RECURSIVE TrieWalkShortest(_, _, _, _, _, _)
TrieWalkShortest(syms, node, isStr, i, st, mwl) ==
  IF i >= Len(syms) \/ isStr \/ syms[i + 1] \notin DOMAIN node
    THEN [succ |-> << >>, raised |-> FALSE]
    ELSE LET child == node[syms[i + 1]] IN
      IF "$" \in DOMAIN child /\ Len(st.cur_word) < mwl
        THEN [succ |-> << State(i + 1, Append(st.cur_word, child["$"]),
                                st.sentence,
                                st.score + score_letter(child["$"])) >>,
              raised |-> FALSE]
        ELSE TrieWalkShortest(syms, child, FALSE, i + 1, st, mwl)

(***************************************************************************)
(* Faulty variant of the trie walk below: the successors keep the position *)
(* of the state walked from, so a letter consumes no symbol.               *)
(***************************************************************************)
RECURSIVE TrieWalkNoAdvance(_, _, _, _, _, _)
TrieWalkNoAdvance(syms, node, isStr, i, st, mwl) ==
  IF i >= Len(syms) \/ isStr \/ syms[i + 1] \notin DOMAIN node
    THEN [succ |-> << >>, raised |-> FALSE]
    ELSE LET child == node[syms[i + 1]]
             emit == IF "$" \in DOMAIN child /\ Len(st.cur_word) < mwl
                       THEN << State(st.pos, Append(st.cur_word, child["$"]),
                                     st.sentence,
                                     st.score + score_letter(child["$"])) >>
                       ELSE << >>
             rest == TrieWalkNoAdvance(syms, child, FALSE, i + 1, st, mwl)
         IN  [succ |-> emit \o rest.succ, raised |-> FALSE]

(***************************************************************************)
(* The Morse trie walk of one state, from symbol index i (0-based, as in   *)
(* the source) with the walk at `node`.  isStr says that node is no dict   *)
(* but the letter string reached through the key "$": then                 *)
(* `bits[i] in node` is a substring test and `node[bits[i]]` raises        *)
(* TypeError.  The result is the successors appended and whether the walk  *)
(* raised.                                                                 *)
(***************************************************************************)
RECURSIVE TrieWalk(_, _, _, _, _, _)
TrieWalk(syms, node, isStr, i, st, mwl) ==
  IF i >= Len(syms) THEN [succ |-> << >>, raised |-> FALSE]
  ELSE LET c == syms[i + 1] IN
    IF isStr
      THEN [succ |-> << >>, raised |-> (c = node)]
      ELSE IF c \notin DOMAIN node
        THEN [succ |-> << >>, raised |-> FALSE]
        ELSE LET child == node[c]
                 childStr == (c = "$")
                 emit == IF ~childStr /\ "$" \in DOMAIN child
                            /\ Len(st.cur_word) < mwl
                           THEN << State(i + 1,
                                         Append(st.cur_word, child["$"]),
                                         st.sentence,
                                         st.score + score_letter(child["$"])) >>
                           ELSE << >>
                 rest == TrieWalk(syms, child, childStr, i + 1, st, mwl)
             IN  [succ |-> emit \o rest.succ, raised |-> rest.raised]

(***************************************************************************)
(* The body of `for pos, cur_word, sentence, score in states` for one      *)
(* state st, on the locals loc = [next_states, visited, results, raised].  *)
(***************************************************************************)
ProcessState(st, loc, syms, dict, mwl) ==
  LET key == MemoKey(st) IN
  IF Dominated(loc.visited, key, st.score) THEN loc
  ELSE LET vis == DictSet(loc.visited, key, st.score) IN
    IF st.pos = Len(syms)
      THEN IF Finalizes(st.cur_word, dict)
             THEN [loc EXCEPT !.visited = vis,
                     !.results = Append(@,
                        [text |-> Join(Append(st.sentence, st.cur_word)),
                         score |-> st.score + score_word(st.cur_word, dict)])]
             ELSE [loc EXCEPT !.visited = vis]
      ELSE LET walk == TrieWalk(syms, MORSE_TRIE, FALSE, st.pos, st, mwl)
               boundary ==
                 IF WordBoundary(st.cur_word, dict)
                   THEN << State(st.pos, << >>,
                                 Append(st.sentence, st.cur_word),
                                 st.score + score_word(st.cur_word, dict)
                                   - BOUNDARY_PENALTY) >>
                   ELSE << >>
           IN  IF walk.raised
                 THEN [loc EXCEPT !.visited = vis,
                         !.next_states = @ \o walk.succ,
                         !.raised = TRUE]
                 ELSE [loc EXCEPT !.visited = vis,
                         !.next_states = @ \o walk.succ \o boundary]

\* faulty variant: the successors are truncated without being sorted
BeamPruneUnsorted(nexts, bw) == Take(nexts, bw)

\* Beam pruning: next_states.sort(key=-score); states = next_states[:BEAM_WIDTH]
BeamPrune(nexts, bw) == Take(SortDesc(nexts), bw)

\* faulty variant: the results are truncated without being sorted
RankResultsUnsorted(res, mr) == Take(res, mr)

\* return sorted(results, key=-score)[:MAX_RESULTS]
RankResults(res, mr) == Take(SortDesc(res), mr)

(***************************************************************************)
(* A whole call, as the iteration of the steps above: the for loop over    *)
(* one generation, then the while loop.  The result carries the returned   *)
(* list, whether the call raised, whether some generation was truncated    *)
(* by the beam, and the number of generations run.                         *)
(***************************************************************************)
RECURSIVE RunStates(_, _, _, _, _, _)
RunStates(sts, j, loc, syms, dict, mwl) ==
  IF j > Len(sts) \/ loc.raised THEN loc
  ELSE RunStates(sts, j + 1, ProcessState(sts[j], loc, syms, dict, mwl),
                 syms, dict, mwl)

RECURSIVE RunLoop(_, _, _, _, _, _, _, _, _)
RunLoop(sts, vis, res, trunc, g, syms, dict, bw, mwl) ==
  IF sts = << >>
    THEN [results |-> res, raised |-> FALSE, truncated |-> trunc, gens |-> g]
    ELSE LET loc == RunStates(sts, 1,
                      [next_states |-> << >>, visited |-> vis,
                       results |-> res, raised |-> FALSE],
                      syms, dict, mwl)
         IN  IF loc.raised
               THEN [results |-> << >>, raised |-> TRUE,
                     truncated |-> trunc, gens |-> g + 1]
               ELSE RunLoop(BeamPrune(loc.next_states, bw), loc.visited,
                            loc.results,
                            trunc \/ Len(loc.next_states) > bw, g + 1,
                            syms, dict, bw, mwl)

brute_force_decode(syms, dict, bw, mwl, mr) ==
  LET run == RunLoop(InitialStates, NewVisited, << >>, FALSE, 0,
                     syms, dict, bw, mwl)
  IN  [ret |-> RankResults(run.results, mr), raised |-> run.raised,
       truncated |-> run.truncated, gens |-> run.gens]

(***************************************************************************)
(* decode_with_polarity: the translation of the bitstream.                 *)
(***************************************************************************)
\* faulty variant: invert leaves the bits as they are
SwapBitsNone(bitstream) == bitstream

\* bitstream.translate(str.maketrans("10", "01"))
SwapBits(bitstream) ==
  [j \in 1..Len(bitstream) |->
     IF bitstream[j] = "1" THEN "0"
     ELSE IF bitstream[j] = "0" THEN "1" ELSE bitstream[j]]

\* bits.replace("1", ".").replace("0", "-")
ToSymbols(bs) ==
  [j \in 1..Len(bs) |->
     IF bs[j] = "1" THEN "." ELSE IF bs[j] = "0" THEN "-" ELSE bs[j]]

ApplyPolarity(bitstream, inv) ==
  ToSymbols(IF inv THEN SwapBits(bitstream) ELSE bitstream)

decode_with_polarity(bitstream, dict, inv, bw, mwl, mr) ==
  brute_force_decode(ApplyPolarity(bitstream, inv), dict, bw, mwl, mr)

(***************************************************************************)
(* The aggregation of main: deduplicate by sentence, keep the best score.  *)
(* `best` is a Python dict: its items keep the order of first insertion,   *)
(* so it is modelled as the sequence of its (text, score) items.           *)
(***************************************************************************)
HasText(items, text) == \E j \in 1..Len(items) : items[j].text = text

\* faulty variant: the comparison is reversed, the lower score is kept
BestPutLower(items, e) ==
  IF ~HasText(items, e.text)
    THEN Append(items, e)
    ELSE [j \in 1..Len(items) |->
            IF items[j].text = e.text /\ items[j].score > e.score
              THEN e ELSE items[j]]

\* if text not in best or best[text] < score: best[text] = score
BestPut(items, e) ==
  IF ~HasText(items, e.text)
    THEN Append(items, e)
    ELSE [j \in 1..Len(items) |->
            IF items[j].text = e.text /\ items[j].score < e.score
              THEN e ELSE items[j]]

RECURSIVE BestFrom(_, _, _)
BestFrom(items, all, j) ==
  IF j > Len(all) THEN items ELSE BestFrom(BestPut(items, all[j]), all, j + 1)

BestOf(all) == BestFrom(<< >>, all, 1)

\* ranked = sorted(best.items(), key=-score)[:MAX_RESULTS]
Ranked(all, mr) == Take(SortDesc(BestOf(all)), mr)

\* main before its first call, for given inputs and configuration
Start(bitstream, dict, bw, mwl, mr) ==
  /\ BITSTREAM = bitstream
  /\ dictionary = dict
  /\ BEAM_WIDTH = bw
  /\ MAX_WORD_LEN = mwl
  /\ MAX_RESULTS = mr
  /\ phase = "normal"
  /\ pc = "call"
  /\ invert = FALSE
  /\ bits = << >>
  /\ states = << >>
  /\ k = 1
  /\ next_states = << >>
  /\ visited = EmptyDict
  /\ results = << >>
  /\ truncated = FALSE
  /\ gens = 0
  /\ processed = << >>
  /\ ret = << >>
  /\ all_results = << >>
  /\ best = << >>
  /\ ranked = << >>
  /\ Imported

\* decode_with_polarity(BITSTREAM, dictionary, invert=inv) up to the first
\* test of `while states` in brute_force_decode
Call(inv) ==
  /\ pc = "call"
  /\ invert' = inv
  /\ bits' = ApplyPolarity(BITSTREAM, inv)
  /\ results' = << >>
  /\ states' = InitialStates
  /\ visited' = NewVisited
  /\ next_states' = << >>
  /\ k' = 1
  /\ truncated' = FALSE
  /\ gens' = 0
  /\ processed' = << >>
  /\ pc' = "loop"
  /\ UNCHANGED << config, phase, ret, mainLocals, builder >>

CallNormal == phase = "normal" /\ Call(FALSE)

CallInverted == phase = "inverted" /\ Call(TRUE)

\* one iteration of the for loop over states
ProcessStep ==
  /\ pc = "loop"
  /\ k <= Len(states)
  /\ LET loc == ProcessState(states[k],
                  [next_states |-> next_states, visited |-> visited,
                   results |-> results, raised |-> FALSE],
                  bits, dictionary, MAX_WORD_LEN)
     IN  /\ next_states' = loc.next_states
         /\ visited' = loc.visited
         /\ results' = loc.results
         /\ phase' = IF loc.raised THEN "error" ELSE phase
         /\ pc' = IF loc.raised THEN "raised" ELSE pc
  /\ k' = k + 1
  /\ UNCHANGED << config, invert, bits, states, truncated, gens, ret,
                  mainLocals, builder >>

Process == ProcessStep /\ UNCHANGED processed

\* the same step, with the state taken and what became of it recorded
ProcessRecorded ==
  /\ ProcessStep
  /\ processed' = Append(processed,
                     [st |-> states[k],
                      discarded |-> (/\ visited' = visited
                                     /\ next_states' = next_states
                                     /\ results' = results
                                     /\ pc' = "loop")])

\* the for loop is over: beam pruning, and the next generation begins
EndGeneration ==
  /\ pc = "loop"
  /\ states # << >>
  /\ k > Len(states)
  /\ states' = BeamPrune(next_states, BEAM_WIDTH)
  /\ truncated' = (truncated \/ Len(next_states) > BEAM_WIDTH)
  /\ gens' = gens + 1
  /\ next_states' = << >>
  /\ k' = 1
  /\ UNCHANGED << config, phase, pc, invert, bits, visited, results,
                  processed, ret, mainLocals, builder >>

\* `while states` fails: brute_force_decode and decode_with_polarity
\* return, and main extends all_results
Return ==
  /\ pc = "loop"
  /\ states = << >>
  /\ ret' = RankResults(results, MAX_RESULTS)
  /\ all_results' = all_results \o ret'
  /\ pc' = "call"
  /\ phase' = IF phase = "normal" /\ ENABLE_REVERSE_POLARITY
                THEN "inverted" ELSE "aggregate"
  /\ UNCHANGED << config, locals, best, ranked, builder >>

\* main: deduplicate by sentence, rank
Aggregate ==
  /\ phase = "aggregate"
  /\ pc = "call"
  /\ best' = BestOf(all_results)
  /\ ranked' = Ranked(all_results, MAX_RESULTS)
  /\ phase' = "done"
  /\ UNCHANGED << config, pc, locals, ret, all_results, builder >>

Next ==
  \/ CallNormal
  \/ CallInverted
  \/ Process
  \/ EndGeneration
  \/ Return
  \/ Aggregate

(***************************************************************************)
(* Inputs.                                                                 *)
(***************************************************************************)
\* sequences over S of length 0..n
RECURSIVE SeqsUpTo(_, _)
SeqsUpTo(S, n) ==
  IF n = 0 THEN { << >> }
  ELSE LET shorter == SeqsUpTo(S, n - 1)
       IN  shorter \cup { Append(q, c) : q \in shorter, c \in S }

\* the words dictionaries are drawn from
DictWords == { <<"E">>, <<"T">>, <<"E","E">>, <<"T","E">> }

\* the dictionaries drawn: every subset of DictWords, and one with the
\* two-symbol letters A and N
Dictionaries == (SUBSET DictWords) \cup { { <<"E">>, <<"A">>, <<"N">> } }

\* the configurations drawn: each option varied with the others at their
\* default
Configs ==
  { << bw, DEFAULT_MAX_WORD_LEN, DEFAULT_MAX_RESULTS >> : bw \in 0..MaxBeam }
  \cup { << DEFAULT_BEAM_WIDTH, mwl, DEFAULT_MAX_RESULTS >> :
           mwl \in (1..MaxCap) \cup {DEFAULT_MAX_WORD_LEN} }
  \cup { << DEFAULT_BEAM_WIDTH, DEFAULT_MAX_WORD_LEN, mr >> :
           mr \in 0..MaxCap }

Init ==
  \E bitstream \in SeqsUpTo({"0", "1"}, MaxBits), dict \in Dictionaries,
     cfg \in Configs :
    Start(bitstream, dict, cfg[1], cfg[2], cfg[3])

Spec == Init /\ [][Next]_vars

(***************************************************************************)
(* The same program with the history of each call recorded, on the         *)
(* bitstreams of at most MaxHist bits.                                     *)
(***************************************************************************)
HistConfigs ==
  { << bw, DEFAULT_MAX_WORD_LEN, DEFAULT_MAX_RESULTS >> :
      bw \in (1..MaxBeam) \cup {DEFAULT_BEAM_WIDTH} }
  \cup { << DEFAULT_BEAM_WIDTH, 1, DEFAULT_MAX_RESULTS >>,
         << DEFAULT_BEAM_WIDTH, DEFAULT_MAX_WORD_LEN, 0 >> }

InitHistory ==
  \E bitstream \in SeqsUpTo({"0", "1"}, MaxHist), dict \in Dictionaries,
     cfg \in HistConfigs :
    Start(bitstream, dict, cfg[1], cfg[2], cfg[3])

NextHistory ==
  \/ CallNormal
  \/ CallInverted
  \/ ProcessRecorded
  \/ EndGeneration
  \/ Return
  \/ Aggregate

SpecHistory == InitHistory /\ [][NextHistory]_vars

(***************************************************************************)
(* The program under fairness: it never stops between two steps, an        *)
(* enabled step is taken.  The inputs are the bitstreams of at most        *)
(* MaxLive bits, three dictionaries, and a beam of one state or the        *)
(* default one.                                                            *)
(***************************************************************************)
InitLive ==
  \E bitstream \in SeqsUpTo({"0", "1"}, MaxLive),
     dict \in { {}, DictWords, { <<"E">>, <<"A">>, <<"N">> } },
     bw \in { 1, DEFAULT_BEAM_WIDTH } :
    Start(bitstream, dict, bw, DEFAULT_MAX_WORD_LEN, DEFAULT_MAX_RESULTS)

SpecLive == InitLive /\ [][Next]_vars /\ WF_vars(Next)

(***************************************************************************)
(* The scenarios of the specification, under the default configuration.    *)
(***************************************************************************)
HI == << "H", "I" >>
SOS == << "S", "O", "S" >>
BitsHI == << "1", "1", "1", "1", "1", "1" >>
BitsSOS == << "1", "1", "1", "0", "0", "0", "1", "1", "1" >>

InitScenario ==
  \E sc \in { << BitsHI, {HI} >>, << BitsSOS, {SOS} >> } :
    Start(sc[1], sc[2], DEFAULT_BEAM_WIDTH, DEFAULT_MAX_WORD_LEN,
          DEFAULT_MAX_RESULTS)

SpecScenario == InitScenario /\ [][Next]_vars

(***************************************************************************)
(* The module being loaded: build_morse_trie(MORSE), before main.          *)
(***************************************************************************)
InitBuild ==
  /\ BITSTREAM = << >>
  /\ dictionary = {}
  /\ BEAM_WIDTH = DEFAULT_BEAM_WIDTH
  /\ MAX_WORD_LEN = DEFAULT_MAX_WORD_LEN
  /\ MAX_RESULTS = DEFAULT_MAX_RESULTS
  /\ phase = "build"
  /\ pc = "call"
  /\ invert = FALSE
  /\ bits = << >>
  /\ states = << >>
  /\ k = 1
  /\ next_states = << >>
  /\ visited = EmptyDict
  /\ results = << >>
  /\ truncated = FALSE
  /\ gens = 0
  /\ processed = << >>
  /\ ret = << >>
  /\ all_results = << >>
  /\ best = << >>
  /\ ranked = << >>
  /\ trie = EmptyDict
  /\ item = 1
  /\ path = << >>

Build == Descend \/ SetTerminal

SpecBuild == InitBuild /\ [][Build]_vars

(***************************************************************************)
(* Bitstreams with characters other than 0 and 1.                          *)
(***************************************************************************)
BitChars == { "0", "1", ".", "$", "E", "x" }

InitMalformed ==
  \E bitstream \in SeqsUpTo(BitChars, MaxMalformed),
     dict \in { { <<"E">> }, { <<"E">>, <<"T">> } } :
    Start(bitstream, dict, DEFAULT_BEAM_WIDTH, DEFAULT_MAX_WORD_LEN,
          DEFAULT_MAX_RESULTS)

SpecMalformed == InitMalformed /\ [][Next]_vars

(***************************************************************************)
(* Single-word round trips: a dictionary of one word W and the bitstream   *)
(* that is W's Morse code under normal polarity.                           *)
(***************************************************************************)
Letters == { MORSE[j][2] : j \in 1..Len(MORSE) }

\* the code of a letter in the MORSE table
MorseCode(letter) ==
  MORSE[CHOOSE j \in 1..Len(MORSE) : MORSE[j][2] = letter][1]

RECURSIVE Encode(_)
Encode(word) ==
  IF word = << >> THEN << >> ELSE MorseCode(Head(word)) \o Encode(Tail(word))

\* the bitstream whose symbols under normal polarity are syms
BitsOf(syms) == [j \in 1..Len(syms) |-> IF syms[j] = "." THEN "1" ELSE "0"]

\* the words (the empty one included) whose code has at most n symbols
RECURSIVE WordsUpTo(_)
WordsUpTo(n) ==
  IF n = 0 THEN { << >> }
  ELSE LET shorter == WordsUpTo(n - 1)
       IN  shorter \cup
             { w \in { Append(v, c) : v \in shorter, c \in Letters } :
                 Len(Encode(w)) <= n }

RoundTripWords == (WordsUpTo(MaxBits) \ { << >> }) \cup { SOS }

InitRoundTrip ==
  \E W \in RoundTripWords, cfg \in Configs :
    /\ Len(W) <= cfg[2]
    /\ cfg[3] >= 1
    /\ Start(BitsOf(Encode(W)), {W}, cfg[1], cfg[2], cfg[3])

SpecRoundTrip == InitRoundTrip /\ [][Next]_vars

(***************************************************************************)
(* The aggregation on its own: main just before it deduplicates, with the  *)
(* result lists of the two calls drawn from the lists a call can return    *)
(* in form (at most MAX_RESULTS entries, no text twice, scores             *)
(* non-increasing).                                                        *)
(***************************************************************************)
AggTexts == { <<"E">>, <<"T">>, <<"E", " ", "T">> }
AggScores == { 580, 590, 1150 }
AggEntries == [text : AggTexts, score : AggScores]

ResultList(list, mr) ==
  /\ Len(list) <= mr
  /\ \A i, j \in 1..Len(list) : i < j =>
       list[i].text # list[j].text /\ list[i].score >= list[j].score

InitAggregate ==
  \E mr \in 0..MaxCap, l1, l2 \in SeqsUpTo(AggEntries, MaxAgg) :
    /\ ResultList(l1, mr) /\ ResultList(l2, mr)
    /\ BITSTREAM = << >>
    /\ dictionary = {}
    /\ BEAM_WIDTH = DEFAULT_BEAM_WIDTH
    /\ MAX_WORD_LEN = DEFAULT_MAX_WORD_LEN
    /\ MAX_RESULTS = mr
    /\ phase = "aggregate"
    /\ pc = "call"
    /\ invert = TRUE
    /\ bits = << >>
    /\ states = << >>
    /\ k = 1
    /\ next_states = << >>
    /\ visited = EmptyDict
    /\ results = l2
    /\ truncated = FALSE
    /\ gens = 1
    /\ processed = << >>
    /\ ret = l2
    /\ all_results = l1 \o l2
    /\ best = << >>
    /\ ranked = << >>
    /\ Imported

SpecAggregate == InitAggregate /\ [][Aggregate]_vars

(***************************************************************************)
(* Properties.                                                             *)
(***************************************************************************)
\* a call has just returned to main: ret is its list, the locals are those
\* the call ended with
Returned == pc = "call" /\ phase \in {"inverted", "aggregate"}

NonIncreasing(list) ==
  \A j \in 1..(Len(list) - 1) : list[j].score >= list[j + 1].score

\* text.split(" "): the inverse of Join on words without spaces
RECURSIVE SplitFrom(_, _, _, _)
SplitFrom(text, j, word, acc) ==
  IF j > Len(text) THEN Append(acc, word)
  ELSE IF text[j] = " "
         THEN SplitFrom(text, j + 1, << >>, Append(acc, word))
         ELSE SplitFrom(text, j + 1, Append(word, text[j]), acc)

SplitWords(text) == SplitFrom(text, 1, << >>, << >>)

\* text is a space-joined sequence of one or more words of dict
DictionaryText(text, dict) ==
  LET ws == SplitWords(text)
  IN  Len(ws) >= 1 /\ \A j \in 1..Len(ws) : ws[j] # << >> /\ ws[j] \in dict

(***************************************************************************)
(* C1: every list brute_force_decode returns has at most MAX_RESULTS       *)
(* entries, with scores non-increasing from the first entry to the last.   *)
(***************************************************************************)
C1_RankedAndCapped ==
  Returned => Len(ret) <= MAX_RESULTS /\ NonIncreasing(ret)

\* three results were found in an order that is not the ranked one, and
\* the cap of two dropped one of them
C1_Witness ==
  /\ Returned
  /\ MAX_RESULTS = 2
  /\ Len(results) = 3
  /\ Len(ret) = 2
  /\ ~NonIncreasing(results)
  /\ ret[1].score > ret[2].score

(***************************************************************************)
(* C2: dictionary gate.  Every entry a call returns has a text that is a   *)
(* space-joined sequence of one or more dictionary words; and the step     *)
(* that processes a state at position n whose non-empty partial word is    *)
(* no dictionary member adds no result entry (and no successor).           *)
(***************************************************************************)
C2_DictionaryGate ==
  [][ /\ (pc = "loop" /\ pc' = "call") =>
           \A j \in 1..Len(ret') : DictionaryText(ret'[j].text, dictionary)
      /\ (/\ pc = "loop"
          /\ k <= Len(states)
          /\ states[k].pos = Len(bits)
          /\ states[k].cur_word # << >>
          /\ states[k].cur_word \notin dictionary) =>
           results' = results /\ next_states' = next_states ]_vars

\* a call that returned a result had also processed, and recorded in its
\* memo table, a state at the end of the bitstream whose partial word is no
\* dictionary member
C2_Witness ==
  /\ Returned
  /\ ret # << >>
  /\ \E key \in DOMAIN visited :
       key[1] = Len(bits) /\ key[2] # << >> /\ key[2] \notin dictionary

(***************************************************************************)
(* C7: for an empty symbol sequence the call returns an empty list for     *)
(* every dictionary: the only state there ever is is (0, "", (), 0.0), it  *)
(* yields no successor and no result.                                      *)
(***************************************************************************)
C7_EmptyInput ==
  BITSTREAM = << >>
    => /\ bits = << >>
       /\ states \in { << >>, InitialStates }
       /\ next_states = << >>
       /\ results = << >>
       /\ DOMAIN visited \subseteq { << 0, << >> >> }
       /\ ret = << >>

\* the call on the empty sequence returned, having processed the initial
\* state, with a dictionary that has words
C7_Witness ==
  /\ BITSTREAM = << >>
  /\ Returned
  /\ dictionary # {}
  /\ gens = 1
  /\ DOMAIN visited = { << 0, << >> >> }

(***************************************************************************)
(* C8: call independence.  Every call starts with an empty memo table, no  *)
(* result and the single initial state, whatever call ran before; the list *)
(* it returns is the one a call on the same symbols, dictionary and        *)
(* configuration returns from a fresh start; and no step changes the       *)
(* dictionary or the configuration.  (MORSE_TRIE is only ever read: in     *)
(* the model it is a constant.)                                            *)
(***************************************************************************)
C8_CallIndependence ==
  [][ /\ (pc = "call" /\ pc' = "loop") =>
           /\ visited' = EmptyDict
           /\ results' = << >>
           /\ next_states' = << >>
           /\ states' = << State(0, << >>, << >>, 0) >>
      /\ (pc = "loop" /\ pc' = "call") =>
           ret' = brute_force_decode(bits, dictionary, BEAM_WIDTH,
                                     MAX_WORD_LEN, MAX_RESULTS).ret
      /\ dictionary' = dictionary
      /\ << BEAM_WIDTH, MAX_WORD_LEN, MAX_RESULTS >>' =
           << BEAM_WIDTH, MAX_WORD_LEN, MAX_RESULTS >> ]_vars

\* the second call of main returned results, after a first call that had
\* returned results too (and so had left a memo table and results behind)
C8_Witness ==
  /\ phase = "aggregate"
  /\ pc = "call"
  /\ invert
  /\ ret # << >>
  /\ Len(all_results) > Len(ret)

\* the bitwise complement of a bitstream over {0, 1}
Complement(bitstream) ==
  [j \in 1..Len(bitstream) |-> IF bitstream[j] = "1" THEN "0" ELSE "1"]

(***************************************************************************)
(* C10: polarity mapping.  For a bitstream over {0, 1} the symbols decoded *)
(* have the bitstream's length, with 1 -> dot and 0 -> dash when invert is *)
(* false and 1 -> dash and 0 -> dot when it is true; and the inverted call *)
(* returns what decode_with_polarity returns with invert=False on the      *)
(* bitwise complement.                                                     *)
(***************************************************************************)
C10_PolarityMapping ==
  (pc = "loop" \/ Returned) =>
    /\ Len(bits) = Len(BITSTREAM)
    /\ \A j \in 1..Len(BITSTREAM) :
         bits[j] = IF (BITSTREAM[j] = "1") = invert THEN "-" ELSE "."
    /\ (Returned /\ invert) =>
         ret = decode_with_polarity(Complement(BITSTREAM), dictionary, FALSE,
                                    BEAM_WIDTH, MAX_WORD_LEN, MAX_RESULTS).ret

\* the inverted call returned results for a bitstream holding both bits
C10_Witness ==
  /\ Returned
  /\ invert
  /\ ret # << >>
  /\ \E i, j \in 1..Len(BITSTREAM) : BITSTREAM[i] = "1" /\ BITSTREAM[j] = "0"

(***************************************************************************)
(* C4: monotonic beam width.  The call that just returned ran with         *)
(* w1 = BEAM_WIDTH; it is compared with the call on the same symbols,      *)
(* dictionary, MAX_WORD_LEN and MAX_RESULTS under every wider beam w2      *)
(* drawn.                                                                  *)
(***************************************************************************)
BeamWidths == (0..(MaxBeam + 1)) \cup {DEFAULT_BEAM_WIDTH}

WiderRun(w2) ==
  brute_force_decode(bits, dictionary, w2, MAX_WORD_LEN, MAX_RESULTS)

\* the wider run returns a non-empty list whose top-1 score is at least the
\* top-1 score of the call that returned
AtLeastAsGood(run) == run.ret # << >> /\ run.ret[1].score >= ret[1].score

\* C4 as stated: for all w1 < w2, if the call with w1 returns a non-empty
\* list then so does the call with w2, with a top-1 score at least as high
C4_MonotonicBeam ==
  (Returned /\ ret # << >>) =>
    \A w2 \in BeamWidths : w2 > BEAM_WIDTH => AtLeastAsGood(WiderRun(w2))

\* C4 amended: for all w1 < w2, if the call with w1 returns a non-empty
\* list and the beam truncates no generation of the call with w2, then the
\* call with w2 returns a non-empty list with a top-1 score at least as high
C4_MonotonicUntruncated ==
  (Returned /\ ret # << >>) =>
    \A w2 \in BeamWidths :
      (w2 > BEAM_WIDTH /\ ~WiderRun(w2).truncated) => AtLeastAsGood(WiderRun(w2))

\* a call whose beam did truncate returned a result, and a wider beam that
\* truncates nothing returns a strictly better top-1
C4_Witness ==
  /\ Returned
  /\ ret # << >>
  /\ truncated
  /\ \E w2 \in BeamWidths :
       /\ w2 > BEAM_WIDTH
       /\ ~WiderRun(w2).truncated
       /\ WiderRun(w2).ret[1].score > ret[1].score

(***************************************************************************)
(* C3: scenario HI.  With dictionary {"HI"} and bitstream "111111" under   *)
(* the default configuration, the normal-polarity call returns a list      *)
(* whose first entry is ("HI", s) with s = score_letter('H') +             *)
(* score_letter('I') + score_word("HI", dictionary) = 7.9, and the         *)
(* inverted call returns an empty list.                                    *)
(***************************************************************************)
C3_ScenarioHI ==
  (Returned /\ BITSTREAM = BitsHI /\ dictionary = {HI}) =>
    IF invert
      THEN ret = << >>
      ELSE /\ ret # << >>
           /\ ret[1].text = HI
           /\ ret[1].score = score_letter("H") + score_letter("I")
                               + score_word(HI, dictionary)
           /\ ret[1].score = 790

\* both calls of the scenario have returned: the first gave ("HI", 7.9),
\* the second nothing
C3_Witness ==
  /\ BITSTREAM = BitsHI
  /\ dictionary = {HI}
  /\ phase = "aggregate"
  /\ invert
  /\ ret = << >>
  /\ all_results = << [text |-> HI, score |-> 790] >>

\* a character of the documented bitstream alphabet
Wellformed(c) == c \in { "0", "1" }

(***************************************************************************)
(* C5: malformed bitstream characters.  For every bitstream, also one      *)
(* holding characters other than 0 and 1, no call raises, and no state     *)
(* has consumed a position that holds such a character.                    *)
(***************************************************************************)
C5_MalformedHarmless ==
  /\ phase # "error"
  /\ \A j \in 1..Len(next_states) :
       \A i \in 1..next_states[j].pos : Wellformed(BITSTREAM[i])

(***************************************************************************)
(* C9: single-word round trip.  With the dictionary {W} and the symbols    *)
(* that are the Morse codes of W's letters (W of at most MAX_WORD_LEN      *)
(* letters, MAX_RESULTS at least 1), a call whose beam truncated no        *)
(* generation returns W as its first entry, and no other entry is W.       *)
(***************************************************************************)
C9_RoundTrip ==
  (/\ Returned
   /\ ~invert
   /\ ~truncated
   /\ \E W \in dictionary : dictionary = {W} /\ bits = Encode(W)
                              /\ Len(W) <= MAX_WORD_LEN
   /\ MAX_RESULTS >= 1) =>
    /\ ret # << >>
    /\ dictionary = { ret[1].text }
    /\ \A j \in 2..Len(ret) : ret[j].text # ret[1].text

\* SOS came back first from '...---...', after a search that had also
\* reached the end of the symbols with other letter sequences
C9_Witness ==
  /\ Returned
  /\ ~invert
  /\ ~truncated
  /\ dictionary = {SOS}
  /\ bits = Encode(SOS)
  /\ ret # << >>
  /\ ret[1].text = SOS
  /\ \E key \in DOMAIN visited : key[1] = Len(bits) /\ key[2] # SOS

(***************************************************************************)
(* C6: aggregation.  all_results is the list of the normal call followed   *)
(* by the list of the inverted call (ret).                                 *)
(***************************************************************************)
NormalList == SubSeq(all_results, 1, Len(all_results) - Len(ret))
InvertedList == ret

AllTexts == { all_results[j].text : j \in 1..Len(all_results) }

\* the highest score text has in all_results
MaxScore(text) ==
  CHOOSE sc \in { all_results[j].score : j \in 1..Len(all_results) } :
    /\ \E j \in 1..Len(all_results) :
         all_results[j].text = text /\ all_results[j].score = sc
    /\ \A j \in 1..Len(all_results) :
         all_results[j].text = text => all_results[j].score <= sc

\* text occurs in both lists, with different scores
InBothDiffering(text) ==
  \E i \in 1..Len(NormalList), j \in 1..Len(InvertedList) :
    /\ NormalList[i].text = text
    /\ InvertedList[j].text = text
    /\ NormalList[i].score # InvertedList[j].score

Occurrences(list, text) ==
  Cardinality({ j \in 1..Len(list) : list[j].text = text })

\* the output is the merged set (one entry per distinct text, with the
\* maximum score of the text) sorted by descending score and truncated to
\* MAX_RESULTS entries
MergedSortedTruncated ==
  /\ \A t \in AllTexts : Occurrences(ranked, t) <= 1
  /\ \A j \in 1..Len(ranked) :
       ranked[j].text \in AllTexts /\ ranked[j].score = MaxScore(ranked[j].text)
  /\ NonIncreasing(ranked)
  /\ Len(ranked) = Min(MAX_RESULTS, Cardinality(AllTexts))
  /\ \A t \in AllTexts : Occurrences(ranked, t) = 0 =>
       \A j \in 1..Len(ranked) : ranked[j].score >= MaxScore(t)

RECURSIVE NodePaths(_)
NodePaths(t) ==
  { << >> } \cup
    UNION { { << s >> \o p : p \in NodePaths(t[s]) } : s \in DOMAIN t \ {"$"} }

\* the paths of the terminal nodes of t: the nodes with the key "$"
Terminals(t) == { p \in NodePaths(t) : "$" \in DOMAIN NodeAt(t, p) }

Codes == { MORSE[j][1] : j \in 1..Len(MORSE) }

IsPrefix(p, code) == Len(p) <= Len(code) /\ SubSeq(code, 1, Len(p)) = p

(***************************************************************************)
(* C11: when build_morse_trie(MORSE) has returned, the trie has exactly 26 *)
(* terminal nodes: for each (code, letter) of MORSE the node reached from  *)
(* the root by the code is terminal and carries the letter, no other node  *)
(* is terminal, and every node is a prefix of one of the 26 codes.  While  *)
(* it runs, the terminal nodes are those of the items already inserted.    *)
(* The trie it returns is the MORSE_TRIE the decoder walks.                *)
(***************************************************************************)
C11_TrieTerminals ==
  /\ Terminals(trie) = { MORSE[j][1] : j \in 1..(item - 1) }
  /\ \A p \in NodePaths(trie) : \E code \in Codes : IsPrefix(p, code)
  /\ phase = "built" =>
       /\ Cardinality(Terminals(trie)) = 26
       /\ \A j \in 1..Len(MORSE) :
            /\ MORSE[j][1] \in Terminals(trie)
            /\ NodeAt(trie, MORSE[j][1])["$"] = MORSE[j][2]
       /\ Terminals(trie) = Codes
       /\ trie = MORSE_TRIE

\* build_morse_trie has returned, having inserted Z (the last item) below
\* the node of M, a terminal inserted earlier
C11_Witness ==
  /\ phase = "built"
  /\ item = Len(MORSE) + 1
  /\ NodeAt(trie, << "-", "-", ".", "." >>)["$"] = "Z"
  /\ NodeAt(trie, << "-", "-" >>)["$"] = "M"

(***************************************************************************)
(* C12: zero caps.  With BEAM_WIDTH = 0 a call never raises, finds no      *)
(* result, ends after its first generation (whose successors are all       *)
(* dropped) and returns an empty list; with MAX_RESULTS = 0 a call never   *)
(* raises and returns an empty list, whatever it found; for every          *)
(* sequence of dots and dashes and every dictionary.                       *)
(***************************************************************************)
C12_ZeroCaps ==
  /\ BEAM_WIDTH = 0 =>
       /\ phase # "error"
       /\ results = << >>
       /\ ret = << >>
       /\ gens <= 1
       /\ gens = 1 => states = << >>
  /\ MAX_RESULTS = 0 =>
       /\ phase # "error"
       /\ ret = << >>
       /\ all_results = << >>

\* a call under MAX_RESULTS = 0 returned, having found results; and on its
\* symbols and dictionary the call with BEAM_WIDTH = 0 drops successors in
\* its first generation
C12_Witness ==
  /\ MAX_RESULTS = 0
  /\ Returned
  /\ results # << >>
  /\ ret = << >>
  /\ brute_force_decode(bits, dictionary, 0, MAX_WORD_LEN,
                        DEFAULT_MAX_RESULTS).truncated

(***************************************************************************)
(* The history of a call.                                                  *)
(***************************************************************************)
\* (position, partial_word) of a state
PosWord(st) == << st.pos, st.cur_word >>

MaxOf(S) == CHOOSE x \in S : \A y \in S : y <= x

\* the scores of the states of hist, a history of processed states, that
\* have the (position, partial_word) key
ProcessedScores(hist, key) ==
  { hist[i].st.score : i \in { j \in 1..Len(hist) : PosWord(hist[j].st) = key } }

ProcessedKeys(hist) == { PosWord(hist[i].st) : i \in 1..Len(hist) }

(***************************************************************************)
(* C13: memo dominance rule.  The step that takes a state from the active  *)
(* set leaves the memo table, the successors and the results unchanged     *)
(* exactly when the memo table holds an entry for the state's              *)
(* (position, partial_word) with a score greater than or equal to the      *)
(* state's score; otherwise it sets that entry, and no other, to the       *)
(* state's score.  So within a call no entry is removed or lowered, and    *)
(* the entry of a key is the highest score of the states processed so far  *)
(* with that key.                                                          *)
(***************************************************************************)
C13_MemoDominance ==
  [][ (pc = "loop" /\ k <= Len(states) /\ k' = k + 1) =>
        LET st == states[k]
            key == PosWord(st)
            held == key \in DOMAIN visited /\ visited[key] >= st.score
            untouched == /\ visited' = visited
                         /\ next_states' = next_states
                         /\ results' = results
        IN  /\ held <=> untouched
            /\ ~held =>
                 /\ DOMAIN visited' = DOMAIN visited \cup {key}
                 /\ visited'[key] = st.score
                 /\ \A q \in DOMAIN visited : q # key => visited'[q] = visited[q]
            /\ \A q \in DOMAIN visited :
                 q \in DOMAIN visited' /\ visited'[q] >= visited[q]
            /\ DOMAIN visited' = ProcessedKeys(processed')
            /\ \A q \in DOMAIN visited' :
                 visited'[q] = MaxOf(ProcessedScores(processed', q)) ]_vars

\* in one call a state was discarded, and the memo entry of some key was
\* raised by a later state with the key and a higher score
C13_Witness ==
  /\ pc = "loop"
  /\ \E i \in 1..Len(processed) : processed[i].discarded
  /\ \E i, j \in 1..Len(processed) :
       /\ i < j
       /\ PosWord(processed[i].st) = PosWord(processed[j].st)
       /\ processed[i].st.score < processed[j].st.score
       /\ ~processed[i].discarded
       /\ ~processed[j].discarded

(***************************************************************************)
(* C14: memo collapse.  Two states processed in one call with the same     *)
(* (position, partial_word) and different committed sentences.  The        *)
(* history of a call is looked at when the call has returned: it then      *)
(* holds every state the call processed.                                   *)
(***************************************************************************)
\* entries i and j of the history are such a pair
SameKeyOtherSentence(i, j) ==
  /\ i # j
  /\ PosWord(processed[i].st) = PosWord(processed[j].st)
  /\ processed[i].st.sentence # processed[j].st.sentence

PlaceOf(seq, i) ==
  1 + Cardinality({ j \in 1..Len(seq) :
                      \/ seq[j].score > seq[i].score
                      \/ (seq[j].score = seq[i].score /\ j < i) })

C15_BeamTruncation ==
  [][ (pc = "loop" /\ gens' = gens + 1) =>
        /\ Len(states') = IF Len(next_states) < BEAM_WIDTH
                            THEN Len(next_states) ELSE BEAM_WIDTH
        /\ Len(states') <= BEAM_WIDTH
        /\ NonIncreasing(states')
        /\ \A i \in 1..Len(next_states) :
             IF PlaceOf(next_states, i) <= BEAM_WIDTH
               THEN states'[PlaceOf(next_states, i)] = next_states[i]
               ELSE \A p \in 1..Len(states') :
                      states'[p].score >= next_states[i].score ]_vars

\* a generation has just ended whose successors the beam cut to two states
\* of different scores, with more generations to come
C15_Witness ==
  /\ pc = "loop"
  /\ k = 1
  /\ gens >= 1
  /\ truncated
  /\ BEAM_WIDTH = 2
  /\ Len(states) = 2
  /\ states[1].score > states[2].score
  /\ states[1].pos < Len(bits)

(***************************************************************************)
(* C16: letter extension.  The step that takes a state (p, w, sentence,    *)
(* score) with p < n that the memo test does not discard appends, as the   *)
(* successors with a non-empty partial word, exactly one state             *)
(* (p + j, w + letter, sentence, score + score_letter(letter)) for each    *)
(* j >= 1 with p + j <= n such that symbols[p .. p+j) is the Morse code of *)
(* the letter, when len(w) < MAX_WORD_LEN, and none when                   *)
(* len(w) >= MAX_WORD_LEN.  No state has a partial word longer than        *)
(* MAX_WORD_LEN or a position greater than n.                              *)
(***************************************************************************)
\* the successors a step appended
Appended == SubSeq(next_states', Len(next_states) + 1, Len(next_states'))

LetterSuccessors(st) ==
  { State(st.pos + j, Append(st.cur_word, letter), st.sentence,
          st.score + score_letter(letter)) :
      << j, letter >> \in
        { x \in (1..(Len(bits) - st.pos)) \X Letters :
            MorseCode(x[2]) = SubSeq(bits, st.pos + 1, st.pos + x[1]) } }

WithinCaps(sts) ==
  \A j \in 1..Len(sts) :
    Len(sts[j].cur_word) <= MAX_WORD_LEN /\ sts[j].pos <= Len(bits)

C16_LetterExtension ==
  [][ /\ (pc = "loop" /\ k <= Len(states) /\ k' = k + 1) =>
        LET st == states[k]
            held == /\ PosWord(st) \in DOMAIN visited
                    /\ visited[PosWord(st)] >= st.score
            letters == { i \in 1..Len(Appended) : Appended[i].cur_word # << >> }
        IN  (~held /\ st.pos < Len(bits)) =>
              /\ SubSeq(next_states', 1, Len(next_states)) = next_states
              /\ { Appended[i] : i \in letters } =
                   IF Len(st.cur_word) < MAX_WORD_LEN
                     THEN LetterSuccessors(st) ELSE { }
              /\ Cardinality(letters) =
                   Cardinality({ Appended[i] : i \in letters })
      /\ pc' = "loop" => WithinCaps(states') /\ WithinCaps(next_states') ]_vars

\* under MAX_WORD_LEN = 1 the call has expanded the initial state into the
\* letters of one and of two symbols, and has then processed a state with
\* a one-letter partial word before the end of the symbols, which left no
\* successor with a non-empty partial word
C16_Witness ==
  /\ pc = "loop"
  /\ MAX_WORD_LEN = 1
  /\ { << 1, << "E" >> >>, << 2, << "I" >> >> } \subseteq DOMAIN visited
  /\ \E i \in 1..Len(processed) :
       /\ ~processed[i].discarded
       /\ Len(processed[i].st.cur_word) = 1
       /\ processed[i].st.pos < Len(bits)
  /\ \A j \in 1..Len(next_states) : next_states[j].cur_word = << >>

(***************************************************************************)
(* C17: word boundary.  The step that takes a state (p, w, sentence,       *)
(* score) with p < n that the memo test does not discard appends a         *)
(* successor with an empty partial word if and only if w is non-empty and  *)
(* a dictionary member; there is one such successor, it has position p,    *)
(* the sentence extended by w as its last word, and the score              *)
(* score + score_word(w, dictionary) - 0.2.  The step that takes a state   *)
(* at position n appends no successor.                                     *)
(***************************************************************************)
C17_WordBoundary ==
  [][ (pc = "loop" /\ k <= Len(states) /\ k' = k + 1) =>
        LET st == states[k]
            held == /\ PosWord(st) \in DOMAIN visited
                    /\ visited[PosWord(st)] >= st.score
            boundaries == { i \in 1..Len(Appended) : Appended[i].cur_word = << >> }
        IN  /\ (~held /\ st.pos < Len(bits)) =>
                 /\ boundaries # { } <=>
                      (st.cur_word # << >> /\ st.cur_word \in dictionary)
                 /\ Cardinality(boundaries) <= 1
                 /\ \A i \in boundaries :
                      /\ Appended[i].pos = st.pos
                      /\ Len(Appended[i].sentence) = Len(st.sentence) + 1
                      /\ SubSeq(Appended[i].sentence, 1, Len(st.sentence))
                           = st.sentence
                      /\ Appended[i].sentence[Len(st.sentence) + 1] = st.cur_word
                      /\ Appended[i].score =
                           st.score + score_word(st.cur_word, dictionary) - 20
            /\ st.pos = Len(bits) => next_states' = next_states ]_vars

\* a call has appended a word-boundary successor that commits a second
\* word, has expanded a state whose non-empty partial word is no
\* dictionary member, and has processed a dictionary word at position n
C17_Witness ==
  /\ pc = "loop"
  /\ \E j \in 1..Len(next_states) :
       /\ next_states[j].cur_word = << >>
       /\ Len(next_states[j].sentence) = 2
       /\ next_states[j].pos < Len(bits)
  /\ \E i \in 1..Len(processed) :
       /\ ~processed[i].discarded
       /\ processed[i].st.cur_word # << >>
       /\ processed[i].st.cur_word \notin dictionary
       /\ processed[i].st.pos < Len(bits)
  /\ \E i \in 1..Len(processed) :
       /\ ~processed[i].discarded
       /\ processed[i].st.cur_word \in dictionary
       /\ processed[i].st.pos = Len(bits)

(***************************************************************************)
(* C18: termination.  For every symbol sequence of length n, every         *)
(* dictionary and every positive BEAM_WIDTH, a call never completes more   *)
(* than 2n + 1 generations, and a call that has entered its generation     *)
(* loop returns.                                                           *)
(***************************************************************************)
C18_Termination ==
  /\ [](BEAM_WIDTH > 0 => gens <= 2 * Len(bits) + 1)
  /\ (BEAM_WIDTH > 0 /\ pc = "loop") ~> (pc = "call")

\* a call on two symbols or more has returned after 2n generations
C18_Witness ==
  /\ Returned
  /\ BEAM_WIDTH > 0
  /\ Len(bits) >= 2
  /\ gens = 2 * Len(bits)

(***************************************************************************)
(* C19: segmentation consistency.  In every state of the active set and    *)
(* of the successors, the Morse codes of the letters of the committed      *)
(* sentence words followed by the letters of the partial word,             *)
(* concatenated in order, are symbols[0 .. position); and for every entry  *)
(* found or returned, the Morse codes of the letters of its text (spaces   *)
(* removed) are the whole symbol sequence.                                 *)
(***************************************************************************)
\* the letters of the words of a sentence, in order
RECURSIVE LettersOf(_)
LettersOf(sentence) ==
  IF sentence = << >> THEN << >>
  ELSE Head(sentence) \o LettersOf(Tail(sentence))

IsLetter(c) == c # " "

Segmented(sts) ==
  \A j \in 1..Len(sts) :
    /\ sts[j].pos <= Len(bits)
    /\ Encode(LettersOf(sts[j].sentence) \o sts[j].cur_word)
         = SubSeq(bits, 1, sts[j].pos)

Spelled(list) ==
  \A j \in 1..Len(list) : Encode(SelectSeq(list[j].text, IsLetter)) = bits

C19_Segmentation ==
  /\ pc = "loop" => Segmented(states) /\ Segmented(next_states)
  /\ (pc = "loop" \/ Returned) => Spelled(results)
  /\ Returned => Spelled(ret)

\* a call has returned two entries, one of them of several words, and so
\* two segmentations of the same symbols
C19_Witness ==
  /\ Returned
  /\ Len(bits) >= 3
  /\ Len(ret) >= 2
  /\ \E i, j \in 1..Len(ret) :
       /\ \E c \in 1..Len(ret[i].text) : ret[i].text[c] = " "
       /\ SelectSeq(ret[i].text, IsLetter) # SelectSeq(ret[j].text, IsLetter)

(***************************************************************************)
(* Decodable symbol sequences.                                             *)
(***************************************************************************)
\* symbols[pos .. n) can be split into the Morse codes of the letters of a
\* sequence of words of dict, each of at most mwl letters
RECURSIVE DecodableFrom(_, _, _, _)
DecodableFrom(syms, pos, dict, mwl) ==
  \/ pos = Len(syms)
  \/ \E w \in dict :
       /\ w # << >>
       /\ Len(w) <= mwl
       /\ pos + Len(Encode(w)) <= Len(syms)
       /\ Encode(w) = SubSeq(syms, pos + 1, pos + Len(Encode(w)))
       /\ DecodableFrom(syms, pos + Len(Encode(w)), dict, mwl)

\* the call that returned ran on such a sequence of one symbol or more, and
\* the beam truncated none of its generations
CompleteCase ==
  /\ Returned
  /\ Len(bits) >= 1
  /\ DecodableFrom(bits, 0, dictionary, MAX_WORD_LEN)
  /\ ~truncated

(***************************************************************************)
(* C20: completeness without truncation.  If the symbol sequence (n >= 1)  *)
(* can be split into Morse codes of letters that group into dictionary     *)
(* words of at most MAX_WORD_LEN letters each, and the beam truncates no   *)
(* generation, then the call finds a result (memo dominance does not       *)
(* remove the last path to one) and, MAX_RESULTS being positive as the     *)
(* configuration documents it, returns a non-empty list.                   *)
(***************************************************************************)
C20_Complete ==
  CompleteCase => results # << >> /\ (MAX_RESULTS >= 1 => ret # << >>)

\* such a call returned a result although its memo test had discarded a
\* state before the end of the symbols, where it could still be extended
C20_Witness ==
  /\ CompleteCase
  /\ ret # << >>
  /\ \E i \in 1..Len(processed) :
       processed[i].discarded /\ processed[i].st.pos < Len(bits)

====
